---- MODULE Spec2Model ----
(***************************************************************************)
(* Subreddit discovery of KeywordLeadGen: the route handler                *)
(* GET /api/products/subreddits (src/app/api/products/subreddits/route.ts) *)
(* and the service findRelevantSubreddits (src/lib/services/reddit.ts),    *)
(* both working on the subredditSuggestion table.                          *)
(*                                                                         *)
(* A string is a sequence of one-character strings, so that toLowerCase,   *)
(* replace(/^r\//i, ''), includes and split act on characters. A missing   *)
(* string field (undefined) is the empty sequence: every use in the code   *)
(* tests it for truthiness (x || y, x && y, x?.f() || ''), where undefined *)
(* and '' behave alike.                                                    *)
(***************************************************************************)
EXTENDS Integers, Sequences, FiniteSets, TLC

(***************************************************************************)
(* Strings                                                                 *)
(***************************************************************************)

\* String.prototype.toLowerCase on one character
LowerChar(c) ==
  CASE c = "A" -> "a" [] c = "B" -> "b" [] c = "C" -> "c" [] c = "D" -> "d"
    [] c = "E" -> "e" [] c = "F" -> "f" [] c = "G" -> "g" [] c = "H" -> "h"
    [] c = "I" -> "i" [] c = "J" -> "j" [] c = "K" -> "k" [] c = "L" -> "l"
    [] c = "M" -> "m" [] c = "N" -> "n" [] c = "O" -> "o" [] c = "P" -> "p"
    [] c = "Q" -> "q" [] c = "R" -> "r" [] c = "S" -> "s" [] c = "T" -> "t"
    [] c = "U" -> "u" [] c = "V" -> "v" [] c = "W" -> "w" [] c = "X" -> "x"
    [] c = "Y" -> "y" [] c = "Z" -> "z" [] OTHER -> c

\* s.toLowerCase()
ToLowerCase(s) == [i \in 1..Len(s) |-> LowerChar(s[i])]

\* s.replace(/^r\//i, ''): the prefix in either letter case
StripPrefixAnyCase(s) ==
  IF Len(s) >= 2 /\ s[1] \in {"r", "R"} /\ s[2] = "/"
  THEN SubSeq(s, 3, Len(s)) ELSE s

\* s.replace(/^r\//, ''): the lower-case prefix only
StripPrefixExact(s) ==
  IF Len(s) >= 2 /\ s[1] = "r" /\ s[2] = "/"
  THEN SubSeq(s, 3, Len(s)) ELSE s

\* hay.includes(needle)
Includes(hay, needle) ==
  \E i \in 0..(Len(hay) - Len(needle)) : SubSeq(hay, i + 1, i + Len(needle)) = needle

\* s.split(' ')
RECURSIVE SplitFrom(_, _, _)
SplitFrom(s, i, cur) ==
  IF i > Len(s) THEN <<cur>>
  ELSE IF s[i] = " " THEN <<cur>> \o SplitFrom(s, i + 1, <<>>)
  ELSE SplitFrom(s, i + 1, Append(cur, s[i]))

SplitSpace(s) == SplitFrom(s, 1, <<>>)

\* list.join(sep)
RECURSIVE Join(_, _)
Join(list, sep) ==
  IF Len(list) = 0 THEN <<>>
  ELSE IF Len(list) = 1 THEN list[1]
  ELSE list[1] \o sep \o Join(Tail(list), sep)

\* list.slice(0, n)
SliceTo(list, n) == SubSeq(list, 1, IF Len(list) < n THEN Len(list) ELSE n)

Min(a, b) == IF a < b THEN a ELSE b
Max(a, b) == IF a > b THEN a ELSE b

Range(f) == {f[i] : i \in DOMAIN f}

(***************************************************************************)
(* Raw provider records. numberOfMembers is a JavaScript value: a number,  *)
(* a string that is no number, or undefined.                               *)
(***************************************************************************)

Num(n)    == [kind |-> "number", val |-> n]
NotANumber == [kind |-> "nan", val |-> 0]
Undefined  == [kind |-> "undefined", val |-> 0]

\* Number(x) is not NaN
IsNumeric(m) == m.kind = "number"
\* x >= k and x > k, x < k under JavaScript's coercion: false on NaN
JsGe(m, k) == IsNumeric(m) /\ m.val >= k
JsGt(m, k) == IsNumeric(m) /\ m.val > k
JsLt(m, k) == IsNumeric(m) /\ m.val < k
\* parseInt(x) || 0
ParseIntOrZero(m) == IF IsNumeric(m) THEN m.val ELSE 0

(***************************************************************************)
(* The records the provider may return. key names the record in the model  *)
(* only; the code never reads it.                                          *)
(***************************************************************************)
\* the record of the spec's concrete scenario: title, description, numberOfMembers and
\* over18 as given there, no displayName and no url, and the dataType of a community
ItemScenario ==
  [key |-> "i1",
   displayName |-> <<>>,
   title |-> <<"r","/","M","e","a","l","P","r","e","p","S","u","n","d","a","y">>,
   description |-> <<"b","u","d","g","e","t"," ","c","o","o","k","i","n","g"," ","a","n","d"," ","m","e","a","l"," ","p","l","a","n","n","i","n","g"," ","t","i","p","s">>,
   numberOfMembers |-> Num(150000), over18 |-> FALSE, url |-> <<>>, dataType |-> "community"]

\* the same community with every field
ItemMealPrep ==
  [key |-> "i2",
   displayName |-> <<"M","e","a","l","P","r","e","p","S","u","n","d","a","y">>,
   title |-> <<"r","/","M","e","a","l","P","r","e","p","S","u","n","d","a","y">>,
   description |-> <<"b","u","d","g","e","t"," ","c","o","o","k","i","n","g"," ","a","n","d"," ","m","e","a","l"," ","p","l","a","n","n","i","n","g"," ","t","i","p","s">>,
   numberOfMembers |-> Num(150000), over18 |-> FALSE, url |-> <<"u","2">>, dataType |-> "community"]

\* the same community under another spelling of its name
ItemMealPrepLower ==
  [key |-> "i3",
   displayName |-> <<"r","/","m","e","a","l","p","r","e","p","s","u","n","d","a","y">>,
   title |-> <<"M","e","a","l"," ","P","r","e","p">>,
   description |-> <<"m","e","a","l"," ","p","l","a","n","n","i","n","g"," ","h","e","l","p">>,
   numberOfMembers |-> Num(20000), over18 |-> FALSE, url |-> <<"u","3">>, dataType |-> "community"]

\* records without url: only route.ts takes them
ItemKeto ==
  [key |-> "r1",
   displayName |-> <<"k","e","t","o">>,
   title |-> <<"k","e","t","o">>,
   description |-> <<"m","e","a","l"," ","p","l","a","n","n","i","n","g">>,
   numberOfMembers |-> Num(50000), over18 |-> FALSE, url |-> <<>>, dataType |-> "community"]

ItemBbq ==
  [key |-> "r2",
   displayName |-> <<"B","B","Q">>,
   title |-> <<"B","B","Q">>,
   description |-> <<"b","b","q"," ","b","u","d","g","e","t"," ","c","o","o","k","i","n","g">>,
   numberOfMembers |-> Num(120000), over18 |-> FALSE, url |-> <<>>, dataType |-> "community"]

ItemCooking ==
  [key |-> "r3",
   displayName |-> <<"C","o","o","k","i","n","g">>,
   title |-> <<"C","o","o","k","i","n","g">>,
   description |-> <<"m","e","a","l"," ","p","l","a","n","n","i","n","g">>,
   numberOfMembers |-> Num(2000000), over18 |-> FALSE, url |-> <<>>, dataType |-> "community"]

ItemVegan ==
  [key |-> "r4",
   displayName |-> <<"v","e","g","a","n">>,
   title |-> <<"V","e","g","a","n"," ","M","e","a","l"," ","P","l","a","n","n","i","n","g">>,
   description |-> <<"m","e","a","l"," ","p","l","a","n","n","i","n","g">>,
   numberOfMembers |-> Num(5000), over18 |-> FALSE, url |-> <<>>, dataType |-> "community"]

ItemPlanning ==
  [key |-> "r5",
   displayName |-> <<"m","e","a","l","p","l","a","n","n","i","n","g">>,
   title |-> <<"M","e","a","l"," ","P","l","a","n","n","i","n","g">>,
   description |-> <<"b","u","d","g","e","t"," ","c","o","o","k","i","n","g"," ","m","e","a","l"," ","p","l","a","n","n","i","n","g">>,
   numberOfMembers |-> Num(50000), over18 |-> FALSE, url |-> <<>>, dataType |-> "community"]

\* a record whose title and description hold the same one keyword of four
ItemKetoDiet ==
  [key |-> "s1",
   displayName |-> <<"k","e","t","o","d","i","e","t">>,
   title |-> <<"K","e","t","o">>,
   description |-> <<"k","e","t","o"," ","r","e","c","i","p","e","s">>,
   numberOfMembers |-> Num(50000), over18 |-> FALSE, url |-> <<"u","5">>, dataType |-> "community"]

\* records without displayName: only reddit.ts takes them
ItemFrugal ==
  [key |-> "f1",
   displayName |-> <<>>,
   title |-> <<"F","r","u","g","a","l">>,
   description |-> <<>>,
   numberOfMembers |-> Num(5000), over18 |-> FALSE, url |-> <<"v","1">>, dataType |-> "community"]

ItemEatCheap ==
  [key |-> "f2",
   displayName |-> <<>>,
   title |-> <<"E","a","t","C","h","e","a","p">>,
   description |-> <<>>,
   numberOfMembers |-> Num(50000), over18 |-> FALSE, url |-> <<"v","2">>, dataType |-> "community"]

ItemPantry ==
  [key |-> "f3",
   displayName |-> <<>>,
   title |-> <<"r","/","P","a","n","t","r","y">>,
   description |-> <<"a","d","v","i","c","e">>,
   numberOfMembers |-> Num(5000), over18 |-> FALSE, url |-> <<"v","3">>, dataType |-> "community"]

ItemRecipes ==
  [key |-> "f4",
   displayName |-> <<>>,
   title |-> <<"R","e","c","i","p","e","s">>,
   description |-> <<>>,
   numberOfMembers |-> Num(200000), over18 |-> FALSE, url |-> <<"v","4">>, dataType |-> "community"]

ItemBudget ==
  [key |-> "f5",
   displayName |-> <<>>,
   title |-> <<"R","/","B","u","d","g","e","t">>,
   description |-> <<"b","u","d","g","e","t"," ","c","o","o","k","i","n","g">>,
   numberOfMembers |-> Num(5000), over18 |-> FALSE, url |-> <<"v","5">>, dataType |-> "community"]

\* records to reject: adult, small, without a member count, with a count that is no number
ItemNsfw ==
  [key |-> "x1",
   displayName |-> <<"S","p","i","c","y","F","o","o","d">>,
   title |-> <<"S","p","i","c","y","F","o","o","d">>,
   description |-> <<"m","e","a","l"," ","p","l","a","n","n","i","n","g">>,
   numberOfMembers |-> Num(200000), over18 |-> TRUE, url |-> <<"w","1">>, dataType |-> "community"]

ItemSmall ==
  [key |-> "x2",
   displayName |-> <<"T","i","n","y","M","e","a","l","s">>,
   title |-> <<"T","i","n","y","M","e","a","l","s">>,
   description |-> <<"m","e","a","l"," ","p","l","a","n","n","i","n","g">>,
   numberOfMembers |-> Num(500), over18 |-> FALSE, url |-> <<"w","2">>, dataType |-> "community"]

ItemNoCount ==
  [key |-> "x3",
   displayName |-> <<"N","o","C","o","u","n","t">>,
   title |-> <<"N","o","C","o","u","n","t">>,
   description |-> <<"m","e","a","l"," ","p","l","a","n","n","i","n","g">>,
   numberOfMembers |-> Undefined, over18 |-> FALSE, url |-> <<"w","3">>, dataType |-> "community"]

ItemBadCount ==
  [key |-> "x4",
   displayName |-> <<"B","a","d","C","o","u","n","t">>,
   title |-> <<"B","a","d","C","o","u","n","t">>,
   description |-> <<"m","e","a","l"," ","p","l","a","n","n","i","n","g">>,
   numberOfMembers |-> NotANumber, over18 |-> FALSE, url |-> <<"w","4">>, dataType |-> "community"]

Catalog ==
  {ItemScenario, ItemMealPrep, ItemMealPrepLower, ItemKeto, ItemBbq, ItemCooking,
   ItemVegan, ItemPlanning, ItemKetoDiet, ItemFrugal, ItemEatCheap, ItemPantry, ItemRecipes, ItemBudget,
   ItemNsfw, ItemSmall, ItemNoCount, ItemBadCount}

(***************************************************************************)
(* The keyword lists a run may search with.                                *)
(***************************************************************************)
KwMeal == <<<<"m","e","a","l"," ","p","l","a","n","n","i","n","g">>,
            <<"b","u","d","g","e","t"," ","c","o","o","k","i","n","g">>>>
KwFour == <<<<"c","o","o","k">>, <<"k","e","t","o">>, <<"v","e","g","a","n">>, <<"b","b","q">>>>
KwNone == <<>>
KeywordLists == {KwMeal, KwFour, KwNone}

\* The model passes a record by its key and a keyword list by its name, and
\* looks the values up here.
ItemKeys == {item.key : item \in Catalog}
ItemOf == [k \in ItemKeys |-> CHOOSE item \in Catalog : item.key = k]
KwNames == {"meal", "four", "none"}
KwList == [w \in KwNames |-> CASE w = "meal" -> KwMeal [] w = "four" -> KwFour
                                [] OTHER -> KwNone]

(***************************************************************************)
(* Program constants                                                       *)
(***************************************************************************)
\* route.ts: item.numberOfMembers >= 1000; reddit.ts: the same floor
MinMembers == 1000
\* route.ts: if (relevanceScore < 75) return null
RouteMinScore == 75
\* reddit.ts: relevanceScore: { gte: 60 } and .filter(sub => sub.relevanceScore >= 60)
GateMinScore == 60
\* reddit.ts: take: 5, cachedResults.length >= 5, .slice(0, 5)
GateCount == 5

UrlPrefix == <<"https://reddit.com/r/">>
NoDescription == <<"N","o"," ","d","e","s","c","r","i","p","t","i","o","n"," ","a","v","a","i","l","a","b","l","e">>
RelevantTo == <<"Relevant to: ">>
MatchedKeywords == <<"Matched keywords: ">>
CommaSpace == <<",", " ">>

(***************************************************************************)
(* route.ts: calculateRelevanceScore                                       *)
(***************************************************************************)

\* the keywords (by position) contained in text, case-insensitively
HitsIn(text, keywords) ==
  {i \in 1..Len(keywords) : Includes(ToLowerCase(text), ToLowerCase(keywords[i]))}

\* relevanceHits: one per title match and one per description match
RouteRelevanceHits(item, keywords) ==
  Cardinality(HitsIn(item.title, keywords)) + Cardinality(HitsIn(item.description, keywords))

\* matchPercentage < 30, where matchPercentage = (relevanceHits / totalKeywords) * 100
\* is NaN for no keywords and no hits (0 / 0), and NaN < 30 is false
RouteLowMatch(item, keywords) ==
  /\ Len(keywords) > 0
  /\ RouteRelevanceHits(item, keywords) * 100 < 30 * Len(keywords)

RouteRawScore(item, keywords) ==
  70 + 15 * Cardinality(HitsIn(item.title, keywords))
     + 10 * Cardinality(HitsIn(item.description, keywords))
     + (IF JsGt(item.numberOfMembers, 1000000) THEN 10
        ELSE IF JsGt(item.numberOfMembers, 100000) THEN 5 ELSE 0)
     - (IF JsLt(item.numberOfMembers, 10000) THEN 20 ELSE 0)
     - (IF RouteLowMatch(item, keywords) THEN 30 ELSE 0)

\* the score with the clamp left out, which C4 tells from RouteClamp
RouteClampLeftOut(score) == score

\* Math.min(100, Math.max(0, score))
RouteClamp(score) == Min(100, Max(0, score))

RouteScore(item, keywords) == RouteClamp(RouteRawScore(item, keywords))

(***************************************************************************)
(* reddit.ts: calculateRelevanceScore                                      *)
(***************************************************************************)

\* `${item.title} ${item.description || ''}`.toLowerCase()
FindContent(item) == ToLowerCase(item.title \o <<" ">> \o item.description)

\* keyword.toLowerCase().split(' ').some(part => content.includes(part))
SomePartIn(content, keyword) ==
  LET parts == SplitSpace(ToLowerCase(keyword))
  IN  \E j \in 1..Len(parts) : Includes(content, parts[j])

FindKeywordPoints(item, keywords) ==
  LET content == FindContent(item)
  IN  15 * Cardinality({i \in 1..Len(keywords) : SomePartIn(content, keywords[i])})
       + 5 * Cardinality({i \in 1..Len(keywords) :
                            Includes(content, ToLowerCase(keywords[i]))})

FindMemberPoints(item) ==
  IF JsGt(item.numberOfMembers, 100000) THEN 25
  ELSE IF JsGt(item.numberOfMembers, 10000) THEN 15
  ELSE IF JsGt(item.numberOfMembers, 1000) THEN 10 ELSE 0

FindHelpPoints(item) ==
  LET content == FindContent(item)
  IN  IF \/ Includes(content, <<"d","i","s","c","u","s","s">>)
         \/ Includes(content, <<"h","e","l","p">>)
         \/ Includes(content, <<"q","u","e","s","t","i","o","n">>)
         \/ Includes(content, <<"a","d","v","i","c","e">>)
      THEN 10 ELSE 0

FindRawScore(item, keywords) ==
  LET score == 65 + FindKeywordPoints(item, keywords) + FindMemberPoints(item)
                  + FindHelpPoints(item)
  IN  IF \E i \in 1..Len(keywords) : SomePartIn(FindContent(item), keywords[i])
      THEN Max(score, 70) ELSE score

\* Math.min(100, score)
FindCap(score) == Min(100, score)

FindScore(item, keywords) == FindCap(FindRawScore(item, keywords))

(***************************************************************************)
(* Candidates: what each variant makes of the provider's records           *)
(***************************************************************************)

\* the filter with the over18 test left out, which C6 tells from RouteAccepts
RouteAcceptsOver18(item) ==
  /\ item.dataType = "community"
  /\ JsGe(item.numberOfMembers, MinMembers)
  /\ item.displayName # <<>>

\* route.ts: the .filter before the .map
RouteAccepts(item) ==
  /\ item.dataType = "community"
  /\ JsGe(item.numberOfMembers, MinMembers)
  /\ ~item.over18
  /\ item.displayName # <<>>

\* route.ts: (item.displayName || item.title || '').replace(/^r\//i, '').toLowerCase()
RouteName(item) ==
  ToLowerCase(StripPrefixAnyCase(
    IF item.displayName # <<>> THEN item.displayName ELSE item.title))

\* `Relevant to: ${keywords.slice(0, 3).join(", ")}`
RouteMatchReason(keywords) == RelevantTo \o Join(SliceTo(keywords, 3), CommaSpace)

\* route.ts: the object the .map returns for an item it keeps; createdAt and updatedAt
\* are two calls of new Date(), the second one reading later
RouteCandidate(item, keywords, productId, now, later) ==
  LET name == RouteName(item)
  IN  [name |-> name,
       title |-> IF item.title # <<>> THEN item.title ELSE name,
       description |-> IF item.description # <<>> THEN item.description ELSE NoDescription,
       memberCount |-> ParseIntOrZero(item.numberOfMembers),
       url |-> UrlPrefix \o name,
       relevanceScore |-> RouteScore(item, keywords),
       matchReason |-> RouteMatchReason(keywords),
       isMonitored |-> FALSE,
       productId |-> productId,
       createdAt |-> now,
       updatedAt |-> later,
       src |-> item.key]

\* Array.prototype.sort((a, b) => b.relevanceScore - a.relevanceScore): stable
RECURSIVE InsertDesc(_, _)
InsertDesc(sorted, c) ==
  IF Len(sorted) = 0 THEN <<c>>
  ELSE IF sorted[1].relevanceScore >= c.relevanceScore
       THEN <<sorted[1]>> \o InsertDesc(Tail(sorted), c)
       ELSE <<c>> \o sorted

RECURSIVE SortDesc(_)
SortDesc(list) ==
  IF Len(list) = 0 THEN <<>>
  ELSE InsertDesc(SortDesc(SubSeq(list, 1, Len(list) - 1)), list[Len(list)])

\* what route.ts computes of record k under keyword list w, computed once
RouteView ==
  [k \in ItemKeys, w \in KwNames |->
     [accepts |-> RouteAccepts(ItemOf[k]),
      name |-> RouteName(ItemOf[k]),
      score |-> RouteScore(ItemOf[k], KwList[w]),
      candidate |-> RouteCandidate(ItemOf[k], KwList[w], "none", 0, 0)]]

\* newSubredditsData with no floor on the score, which C27 tells from
\* RouteNewSubredditsData
RouteNewSubredditsDataAnyScore(keys, w, existingNames, productId, now, later) ==
  LET kept(k) == /\ RouteView[k, w].accepts
                 /\ RouteView[k, w].name \notin existingNames
      accepted == SelectSeq(keys, kept)
  IN  SortDesc([i \in 1..Len(accepted) |->
                  [RouteView[accepted[i], w].candidate EXCEPT
                     !.productId = productId, !.createdAt = now, !.updatedAt = later]])

\* route.ts: newSubredditsData, of the records keys under the keyword list w
RouteNewSubredditsData(keys, w, existingNames, productId, now, later) ==
  LET kept(k) == /\ RouteView[k, w].accepts
                 /\ RouteView[k, w].name \notin existingNames
                 /\ ~(RouteView[k, w].score < RouteMinScore)
      accepted == SelectSeq(keys, kept)
  IN  SortDesc([i \in 1..Len(accepted) |->
                  [RouteView[accepted[i], w].candidate EXCEPT
                     !.productId = productId, !.createdAt = now, !.updatedAt = later]])

\* isApifySubredditResponse of @/types/apify: the validated parse of a raw record
IsApifySubredditResponse(item) ==
  /\ item.dataType = "community"
  /\ ~item.over18
  /\ item.displayName # <<>> \/ item.title # <<>>

\* reddit.ts: getSubredditsFromApify's validItems
FindAccepts(item) ==
  /\ IsApifySubredditResponse(item)
  /\ JsGe(item.numberOfMembers, MinMembers)
  /\ item.title # <<>>
  /\ item.url # <<>>

\* reddit.ts: item.displayName || item.title.replace(/^r\//, '')
FindName(item) ==
  IF item.displayName # <<>> THEN item.displayName ELSE StripPrefixExact(item.title)

\* `Matched keywords: ${product.keywords.join(', ')}`
FindMatchReason(keywords) == MatchedKeywords \o Join(keywords, CommaSpace)

\* reddit.ts: the object the .map returns
FindCandidate(item, keywords, productId) ==
  [name |-> FindName(item),
   title |-> item.title,
   description |-> item.description,
   memberCount |-> item.numberOfMembers.val,
   url |-> item.url,
   relevanceScore |-> FindScore(item, keywords),
   matchReason |-> FindMatchReason(keywords),
   isMonitored |-> FALSE,
   productId |-> productId,
   src |-> item.key]

\* what reddit.ts computes of record k under keyword list w, computed once
FindView ==
  [k \in ItemKeys, w \in KwNames |->
     [accepts |-> FindAccepts(ItemOf[k]),
      candidate |-> FindCandidate(ItemOf[k], KwList[w], "none")]]

\* subreddits with the slice left out, which C28 tells from FindSubreddits
FindSubredditsUnsliced(keys, w, productId) ==
  LET valid == SelectSeq(keys, LAMBDA k : FindView[k, w].accepts)
      mapped == [i \in 1..Len(valid) |->
                   [FindView[valid[i], w].candidate EXCEPT !.productId = productId]]
      good(sub) == sub.relevanceScore >= GateMinScore
  IN  SortDesc(SelectSeq(mapped, good))

\* reddit.ts: subreddits, of the records keys under the keyword list w
FindSubreddits(keys, w, productId) ==
  LET valid == SelectSeq(keys, LAMBDA k : FindView[k, w].accepts)
      mapped == [i \in 1..Len(valid) |->
                   [FindView[valid[i], w].candidate EXCEPT !.productId = productId]]
      good(sub) == sub.relevanceScore >= GateMinScore
  IN  SliceTo(SortDesc(SelectSeq(mapped, good)), GateCount)

(***************************************************************************)
(* The earlier findRelevantSubreddits (src/unnamed/part_004)               *)
(***************************************************************************)

\* getSubredditsFromApify: the filter
OldAccepts(item) ==
  /\ item.dataType = "community"
  /\ JsGe(item.numberOfMembers, MinMembers)
  /\ ~item.over18
  /\ item.description # <<>>

\* calculateRelevanceScore: 10 for each keyword the content includes
OldKeywordPoints(item, keywords) ==
  LET content == ToLowerCase(item.title \o <<" ">> \o item.description)
  IN  10 * Cardinality({i \in 1..Len(keywords) :
                          Includes(content, ToLowerCase(keywords[i]))})

\* calculateRelevanceScore: members = item.numberOfMembers || 0
OldMemberPoints(item) ==
  IF JsGt(item.numberOfMembers, 100000) THEN 20
  ELSE IF JsGt(item.numberOfMembers, 10000) THEN 10
  ELSE IF JsGt(item.numberOfMembers, 1000) THEN 5 ELSE 0

OldBaseScore == 50

\* calculateRelevanceScore
OldScore(item, keywords) ==
  Min(100, OldBaseScore + OldKeywordPoints(item, keywords) + OldMemberPoints(item))

\* the object the .map returns
OldCandidate(item, keywords, productId) ==
  [name |-> FindName(item),
   title |-> item.title,
   description |-> item.description,
   memberCount |-> item.numberOfMembers.val,
   url |-> UrlPrefix \o FindName(item),
   relevanceScore |-> OldScore(item, keywords),
   matchReason |-> RouteMatchReason(keywords),
   isMonitored |-> FALSE,
   productId |-> productId,
   src |-> item.key]

\* what part_004 computes of record k under keyword list w, computed once
OldView ==
  [k \in ItemKeys, w \in KwNames |->
     [accepts |-> OldAccepts(ItemOf[k]),
      candidate |-> OldCandidate(ItemOf[k], KwList[w], "none")]]

\* subreddits, of the records keys under the keyword list w
OldSubreddits(keys, w, productId) ==
  LET valid == SelectSeq(keys, LAMBDA k : OldView[k, w].accepts)
      mapped == [i \in 1..Len(valid) |->
                   [OldView[valid[i], w].candidate EXCEPT !.productId = productId]]
      good(sub) == sub.relevanceScore >= GateMinScore
  IN  SliceTo(SortDesc(SelectSeq(mapped, good)), GateCount)

(***************************************************************************)
(* The subredditSuggestion table: a set of rows, unique on (productId,     *)
(* name) as the upsert's where: { productId_name } names the constraint.   *)
(***************************************************************************)

ProductRows(rows, productId) == {r \in rows : r.productId = productId}

\* a key on the name alone, which C16 tells from RowsAt
RowsAtNameOnly(rows, productId, name) == {r \in rows : r.name = name}

\* the row the unique key (productId, name) selects, if any
RowsAt(rows, productId, name) ==
  {r \in rows : r.productId = productId /\ r.name = name}

\* prisma.subredditSuggestion.upsert: the create branch
CreateRow(cand, id) ==
  [id |-> id, productId |-> cand.productId, name |-> cand.name, title |-> cand.title,
   description |-> cand.description, memberCount |-> cand.memberCount, url |-> cand.url,
   relevanceScore |-> cand.relevanceScore, matchReason |-> cand.matchReason,
   isMonitored |-> cand.isMonitored, createdAt |-> cand.createdAt,
   updatedAt |-> cand.updatedAt, src |-> cand.src]

\* an update branch that writes the candidate's isMonitored too, which C3 tells from
\* UpdateRow
UpdateRowWithMonitored(row, cand, now) ==
  [row EXCEPT !.relevanceScore = cand.relevanceScore,
              !.matchReason = cand.matchReason,
              !.description = cand.description,
              !.memberCount = cand.memberCount,
              !.isMonitored = cand.isMonitored,
              !.updatedAt = now,
              !.src = cand.src]

\* an update branch that writes the candidate's title and url too, which C18 tells from
\* UpdateRow
UpdateRowWithTitle(row, cand, now) ==
  [row EXCEPT !.relevanceScore = cand.relevanceScore,
              !.matchReason = cand.matchReason,
              !.description = cand.description,
              !.memberCount = cand.memberCount,
              !.title = cand.title,
              !.url = cand.url,
              !.updatedAt = now,
              !.src = cand.src]

\* prisma.subredditSuggestion.upsert: the update branch
UpdateRow(row, cand, now) ==
  [row EXCEPT !.relevanceScore = cand.relevanceScore,
              !.matchReason = cand.matchReason,
              !.description = cand.description,
              !.memberCount = cand.memberCount,
              !.updatedAt = now,
              !.src = cand.src]

\* an upsert that never finds the row and always creates, which C11 tells from Upsert
UpsertAlwaysCreates(rows, cand, id, now) == rows \cup {CreateRow(cand, id)}

\* one upsert keyed by (productId, name)
Upsert(rows, cand, id, now) ==
  LET hit == RowsAt(rows, cand.productId, cand.name)
  IN  IF hit # {}
      THEN {IF r \in hit THEN UpdateRow(r, cand, now) ELSE r : r \in rows}
      ELSE rows \cup {CreateRow(cand, id)}

\* prisma.$transaction([...upserts]): the upserts in order; ids are handed out in order
RECURSIVE ApplyUpserts(_, _, _, _)
ApplyUpserts(rows, cands, id, now) ==
  IF Len(cands) = 0 THEN [rows |-> rows, nextId |-> id]
  ELSE LET created == RowsAt(rows, cands[1].productId, cands[1].name) = {}
       IN  ApplyUpserts(Upsert(rows, cands[1], id, now), Tail(cands),
                        IF created THEN id + 1 ELSE id, now)

\* a batch of upserts run one after the other with no rollback: when it fails, at its
\* last upsert, the earlier ones stay, which C14 tells from Transaction
TransactionWithoutRollback(rows, cands, id, now, txOk) ==
  IF txOk
  THEN ApplyUpserts(rows, cands, id, now)
  ELSE ApplyUpserts(rows, SubSeq(cands, 1, Len(cands) - 1), id, now)

\* prisma.$transaction([...]): all the upserts, or on a failure none of them
Transaction(rows, cands, id, now, txOk) ==
  IF txOk THEN ApplyUpserts(rows, cands, id, now) ELSE [rows |-> rows, nextId |-> id]

\* a table with no unique key, where createMany never conflicts, which C2 tells from
\* CreateManyConflicts
CreateManyNeverConflicts(rows, cands) == FALSE

\* createMany without skipDuplicates fails as a whole on a unique-key conflict,
\* with a stored row or inside the batch
CreateManyConflicts(rows, cands) ==
  \/ \E i \in 1..Len(cands) : RowsAt(rows, cands[i].productId, cands[i].name) # {}
  \/ \E i, j \in 1..Len(cands) :
       i < j /\ cands[i].productId = cands[j].productId /\ cands[i].name = cands[j].name

\* a createMany that first clears the rows of the candidates' products, which C12 tells
\* from CreateMany
CreateManyReplacing(rows, cands, id, now, later) ==
  {r \in rows : \A i \in 1..Len(cands) : r.productId # cands[i].productId}
    \cup {CreateRow(cands[i] @@ [createdAt |-> now, updatedAt |-> later], id + i - 1)
          : i \in 1..Len(cands)}

\* prisma.subredditSuggestion.createMany({data}) with createdAt: new Date() and
\* updatedAt: new Date(), the second call reading later
CreateMany(rows, cands, id, now, later) ==
  rows \cup {CreateRow(cands[i] @@ [createdAt |-> now, updatedAt |-> later], id + i - 1)
             : i \in 1..Len(cands)}

\* part_004: createMany({data, skipDuplicates: true}) inserts, in order, each candidate
\* whose (productId, name) has no row yet, as [rows, nextId]
RECURSIVE CreateManySkipDuplicates(_, _, _, _)
CreateManySkipDuplicates(rows, cands, id, now) ==
  IF Len(cands) = 0 THEN [rows |-> rows, nextId |-> id]
  ELSE LET cand == Head(cands)
       IN  IF RowsAt(rows, cand.productId, cand.name) # {}
           THEN CreateManySkipDuplicates(rows, Tail(cands), id, now)
           ELSE CreateManySkipDuplicates(
                  rows \cup {CreateRow(cand @@ [createdAt |-> now, updatedAt |-> now], id)},
                  Tail(cands), id + 1, now)

\* findMany({orderBy: {relevanceScore: 'desc'}}): the database fixes no order among
\* rows of equal score
RECURSIVE OrderedByScore(_)
OrderedByScore(rows) ==
  IF rows = {} THEN {<<>>}
  ELSE LET top == {r \in rows : \A q \in rows : q.relevanceScore <= r.relevanceScore}
       IN  UNION {{<<r>> \o rest : rest \in OrderedByScore(rows \ {r})} : r \in top}

\* findMany({where: {productId, relevanceScore: {gte: 60}}, orderBy, take: 5})
CachedResults(rows, productId) ==
  {SliceTo(list, GateCount) :
     list \in OrderedByScore({r \in ProductRows(rows, productId) :
                                r.relevanceScore >= GateMinScore})}

\* route.ts line 30: existingNames
ExistingNames(rows, productId) == {ToLowerCase(r.name) : r \in ProductRows(rows, productId)}

\* route.ts lines 54-127: what GET's merge makes of the table, as [rows, nextId]
RouteMerge(rows, id, now, later, productId, existingNames, items, w, txOk) ==
  Transaction(rows,
              RouteNewSubredditsData(items, w, existingNames, productId, now, later),
              id, later, txOk)

\* reddit.ts lines 111-143: what findRelevantSubreddits's merge makes of the table
FindMerge(rows, id, now, later, productId, items, w, storeUp) ==
  LET subreddits == FindSubreddits(items, w, productId)
  IN  IF Len(subreddits) = 0 \/ ~storeUp \/ CreateManyConflicts(rows, subreddits)
      THEN [rows |-> rows, nextId |-> id]
      ELSE [rows |-> CreateMany(rows, subreddits, id, now, later),
            nextId |-> id + Len(subreddits)]

(***************************************************************************)
(* Bounds of the model                                                     *)
(***************************************************************************)
\* discover calls started in one behaviour
MaxCalls == 2
\* monitor toggles by the user in one behaviour
MaxToggles == 1

\* the requests that may be in flight together, and the products they ask about
Procs == {1, 2}
Products == {"p1"}

\* the provider's answers, as lists of record keys: nothing, the scenario's record,
\* records that share a name, a mix with records to reject, and answers long enough
\* for the slice and for more rows than the gate takes
Responses ==
  {<<>>, <<"i1">>, <<"i2">>, <<"i3">>, <<"i2", "i3">>,
   <<"x1", "x2", "x3", "x4", "i2">>,
   <<"r4", "r1", "i2", "r2", "r3", "r5">>,
   <<"f1", "f2", "f3", "f4", "f5", "i2">>}

(***************************************************************************)
(* State                                                                   *)
(***************************************************************************)
VARIABLES
  store,            \* the subredditSuggestion table
  productKeywords,  \* product.keywords of each product
  nextId,           \* the next row id the database hands out
  clock,            \* the time new Date() reads
  pc,               \* where each request is
  loc,              \* each request's local values, and what it answered
  calls,            \* discover calls started
  toggles,          \* monitor toggles done
  version,          \* writes to the table so far
  lastRun,          \* the call that completed last
  builder           \* the CommentBuilder dialog of one post

vars == <<store, productKeywords, nextId, clock, pc, loc, calls, toggles, version, lastRun,
          builder>>

\* no fetch made
NoPost == [made |-> FALSE, comment |-> <<>>]

\* no improvement finished
NoFinish == [done |-> FALSE, cleaned |-> <<>>, post |-> NoPost]

\* the dialog of a post that was never opened
NoBuilder ==
  [variant |-> "none", open |-> FALSE, currentReply |-> <<>>, isEditing |-> FALSE,
   isImproving |-> FALSE, input |-> FALSE, pending |-> FALSE, atSubmit |-> <<>>,
   latestReply |-> <<>>, lastPost |-> NoPost, finish |-> NoFinish]

NoCall ==
  [handler |-> "none", productId |-> "none", existingNames |-> {}, keywords |-> "none",
   items |-> <<>>, startVersion |-> 0, endVersion |-> 0, foreign |-> FALSE,
   gateMet |-> FALSE, metMonitored |-> FALSE, rerun |-> FALSE,
   status |-> "none", body |-> <<>>, providerCalled |-> FALSE, faults |-> {},
   merged |-> <<>>]

NoRun == [handler |-> "none", productId |-> "none", keywords |-> "none", items |-> <<>>,
          clean |-> FALSE, endVersion |-> 0]

Init ==
  /\ store = {}
  /\ productKeywords \in [Products -> KwNames]
  /\ nextId = 1
  /\ clock = 1
  /\ pc = [c \in Procs |-> "idle"]
  /\ loc = [c \in Procs |-> NoCall]
  /\ calls = 0
  /\ toggles = 0
  /\ version = 0
  /\ lastRun = NoRun
  /\ builder = NoBuilder

InFlight(c) == pc[c] \in {"routeRead", "routeMerged", "findGate", "oldGate"}

\* a new request takes the lowest slot that is free
FreeSlot(c) == ~InFlight(c) /\ \A d \in Procs : d < c => InFlight(d)

(***************************************************************************)
(* What the model records about a call, beside the code's own values: the  *)
(* inputs it met, the faults injected, and what it answered.               *)
(***************************************************************************)

\* the name under which two spellings of a community are the same community
CanonicalName(name) == StripPrefixExact(ToLowerCase(name))

\* the product has the cache gate's count of rows at the gate's score
GateSatisfied(rows, productId) ==
  Cardinality({r \in ProductRows(rows, productId) : r.relevanceScore >= GateMinScore})
    >= GateCount

\* a call as it starts
NewCall(handler, productId) ==
  [NoCall EXCEPT !.handler = handler, !.productId = productId,
                 !.startVersion = version,
                 !.gateMet = GateSatisfied(store, productId)]

\* a call as it ends, the table being at endVersion
Answer(call, status, body, endVersion) ==
  [call EXCEPT !.status = status, !.body = body, !.endVersion = endVersion]

RunOf(call, endVersion) ==
  [handler |-> call.handler, productId |-> call.productId, keywords |-> call.keywords,
   items |-> call.items, clean |-> call.faults = {}, endVersion |-> endVersion]

\* the call repeats the call that completed last: same handler, product, keywords and
\* provider response, no fault in either, and no write to the table by anyone else
\* since that call ended
Repeats(call, keywords, items) ==
  /\ lastRun.handler = call.handler
  /\ lastRun.productId = call.productId
  /\ lastRun.keywords = keywords
  /\ lastRun.items = items
  /\ lastRun.clean
  /\ lastRun.endVersion = call.startVersion
  /\ ~call.foreign

\* the names of the records of keys that the handler keeps
KeptNames(handler, keys, w) ==
  IF handler = "route"
  THEN {RouteView[k, w].name : k \in {x \in Range(keys) : RouteView[x, w].accepts}}
  ELSE IF handler = "find"
  THEN {FindView[k, w].candidate.name : k \in {x \in Range(keys) : FindView[x, w].accepts}}
  ELSE {OldView[k, w].candidate.name : k \in {x \in Range(keys) : OldView[x, w].accepts}}

\* the response holds the community of a row that is monitored now
MeetsMonitored(handler, keys, w, productId) ==
  \E r \in ProductRows(store, productId) :
    /\ r.isMonitored
    /\ \E n \in KeptNames(handler, keys, w) : CanonicalName(n) = CanonicalName(r.name)

\* loc after request c wrote the table: the other requests in flight saw a foreign write
Touched(c, mine) ==
  [d \in Procs |->
     IF d = c THEN mine
     ELSE IF InFlight(d) THEN [loc[d] EXCEPT !.foreign = TRUE] ELSE loc[d]]

(***************************************************************************)
(* GET /api/products/subreddits (route.ts). The handler suspends at each   *)
(* await; a step of the model runs from one read or write of the table to  *)
(* the next.                                                               *)
(***************************************************************************)

\* a failure that leaves the request pending, never answered, which C15 tells from
\* RouteFails
RouteFailsUnanswered(c, bad) ==
  /\ loc' = [loc EXCEPT ![c] = bad]
  /\ pc' = [pc EXCEPT ![c] = "pending"]
  /\ lastRun' = lastRun

\* lines 136-141: the outer catch answers whatever was thrown with status 500
RouteFails(c, bad) ==
  /\ loc' = [loc EXCEPT ![c] = Answer(bad, "500", <<>>, version)]
  /\ pc' = [pc EXCEPT ![c] = "done"]
  /\ lastRun' = RunOf(bad, version)

\* a GET that reads the table before it tests its parameters, which C29 tells from
\* RouteStart
RouteStartReadsFirst(c, productId, hasParams, storeUp) ==
  /\ FreeSlot(c)
  /\ calls < MaxCalls
  /\ calls' = calls + 1
  /\ LET call == NewCall("route", productId)
         asked == IF hasParams THEN {} ELSE {"request"}
         read == [call EXCEPT !.existingNames = ExistingNames(store, productId)]
     IN  IF ~storeUp
         THEN RouteFails(c, [call EXCEPT !.faults = asked \cup {"store"}])
         ELSE IF ~hasParams
         THEN LET bad == [read EXCEPT !.faults = asked]
              IN  /\ loc' = [loc EXCEPT ![c] = Answer(bad, "400", <<>>, version)]
                  /\ pc' = [pc EXCEPT ![c] = "done"]
                  /\ lastRun' = RunOf(bad, version)
         ELSE /\ loc' = [loc EXCEPT ![c] = read]
              /\ pc' = [pc EXCEPT ![c] = "routeRead"]
              /\ lastRun' = lastRun
  /\ UNCHANGED <<store, productKeywords, nextId, clock, toggles, version, builder>>

\* lines 17-30: the parameters, then the first findMany and existingNames
RouteStart(c, productId, hasParams, storeUp) ==
  /\ FreeSlot(c)
  /\ calls < MaxCalls
  /\ calls' = calls + 1
  /\ LET call == NewCall("route", productId)
     IN  IF ~hasParams
         THEN LET bad == [call EXCEPT !.faults = {"request"}]
              IN  /\ storeUp
                  /\ loc' = [loc EXCEPT ![c] = Answer(bad, "400", <<>>, version)]
                  /\ pc' = [pc EXCEPT ![c] = "done"]
                  /\ lastRun' = RunOf(bad, version)
         ELSE IF ~storeUp
         THEN RouteFails(c, [call EXCEPT !.faults = {"store"}])
         ELSE /\ loc' = [loc EXCEPT ![c] =
                    [call EXCEPT !.existingNames = ExistingNames(store, productId)]]
              /\ pc' = [pc EXCEPT ![c] = "routeRead"]
              /\ lastRun' = lastRun
  /\ UNCHANGED <<store, productKeywords, nextId, clock, toggles, version, builder>>

\* lines 33-127: extractKeywords, the provider's run and its items, newSubredditsData,
\* and the transaction of upserts, whose failure is logged and swallowed
RouteDiscover(c, keywordsOk, keywords, providerOk, items, txOk, tick) ==
  /\ pc[c] = "routeRead"
  /\ LET call == loc[c]
         data == RouteNewSubredditsData(items, keywords, call.existingNames,
                                        call.productId, clock, clock + tick)
     IN  IF ~keywordsOk
         THEN LET bad == [call EXCEPT !.faults = {"keywords"}]
              IN  /\ keywords = "none" /\ items = <<>> /\ providerOk /\ txOk /\ tick = 0
                  /\ RouteFails(c, bad)
                  /\ UNCHANGED <<store, nextId, clock, version>>
         ELSE IF ~providerOk
         THEN LET bad == [call EXCEPT !.faults = {"provider"}, !.keywords = keywords,
                                      !.providerCalled = TRUE]
              IN  /\ items = <<>> /\ txOk /\ tick = 0
                  /\ RouteFails(c, bad)
                  /\ UNCHANGED <<store, nextId, clock, version>>
         ELSE LET seen == [call EXCEPT
                             !.keywords = keywords, !.items = items,
                             !.providerCalled = TRUE,
                             !.metMonitored =
                                MeetsMonitored("route", items, keywords, call.productId),
                             !.rerun = txOk /\ Repeats(call, keywords, items)]
              IN  /\ txOk \/ Len(data) > 0
                  /\ tick = 0 \/ (txOk /\ Len(data) > 0)
                  /\ IF Len(data) > 0
                     THEN LET res == RouteMerge(store, nextId, clock, clock + tick,
                                                call.productId,
                                                call.existingNames, items, keywords, txOk)
                          IN  /\ store' = res.rows
                              /\ nextId' = res.nextId
                              /\ IF txOk
                                 THEN /\ version' = version + 1
                                      /\ loc' = Touched(c, [seen EXCEPT !.merged =
                                                   [i \in 1..Len(data) |-> data[i].src]])
                                 ELSE /\ version' = version
                                      /\ loc' = [loc EXCEPT ![c] =
                                                   [seen EXCEPT !.faults = {"merge"}]]
                     ELSE /\ loc' = [loc EXCEPT ![c] = seen]
                          /\ UNCHANGED <<store, nextId, version>>
                  /\ pc' = [pc EXCEPT ![c] = "routeMerged"]
                  /\ clock' = clock + tick + 1
                  /\ lastRun' = lastRun
  /\ UNCHANGED <<productKeywords, calls, toggles, builder>>

\* lines 130-142: the second findMany and the response
RouteReturn(c, storeUp) ==
  /\ pc[c] = "routeMerged"
  /\ IF ~storeUp
     THEN RouteFails(c, [loc[c] EXCEPT !.faults = @ \cup {"store"}])
     ELSE \E body \in OrderedByScore(ProductRows(store, loc[c].productId)) :
            /\ loc' = [loc EXCEPT ![c] = Answer(loc[c], "200", body, version)]
            /\ pc' = [pc EXCEPT ![c] = "done"]
            /\ lastRun' = RunOf(loc[c], version)
  /\ UNCHANGED <<store, productKeywords, nextId, clock, calls, toggles, version, builder>>

(***************************************************************************)
(* findRelevantSubreddits (reddit.ts). Whatever is thrown is caught and    *)
(* answered with [].                                                       *)
(***************************************************************************)

\* lines 84-107: the cached rows, and the product's keywords
FindStart(c, productId, storeUp) ==
  /\ FreeSlot(c)
  /\ calls < MaxCalls
  /\ calls' = calls + 1
  /\ LET call == NewCall("find", productId)
     IN  IF ~storeUp
         THEN LET bad == [call EXCEPT !.faults = {"store"}]
              IN  /\ loc' = [loc EXCEPT ![c] = Answer(bad, "returned", <<>>, version)]
                  /\ pc' = [pc EXCEPT ![c] = "done"]
                  /\ lastRun' = RunOf(bad, version)
         ELSE \E cachedResults \in CachedResults(store, productId) :
                IF Len(cachedResults) >= GateCount
                THEN /\ loc' = [loc EXCEPT ![c] =
                           Answer(call, "returned", cachedResults, version)]
                     /\ pc' = [pc EXCEPT ![c] = "done"]
                     /\ lastRun' = RunOf(call, version)
                ELSE IF Len(KwList[productKeywords[productId]]) = 0
                THEN /\ loc' = [loc EXCEPT ![c] = Answer(call, "returned", <<>>, version)]
                     /\ pc' = [pc EXCEPT ![c] = "done"]
                     /\ lastRun' = RunOf(call, version)
                ELSE /\ loc' = [loc EXCEPT ![c] =
                           [call EXCEPT !.keywords = productKeywords[productId]]]
                     /\ pc' = [pc EXCEPT ![c] = "findGate"]
                     /\ lastRun' = lastRun
  /\ UNCHANGED <<store, productKeywords, nextId, clock, toggles, version, builder>>

\* lines 109-149: getSubredditsFromApify (its failure is an empty list), subreddits,
\* createMany, and the answer
FindDiscover(c, providerOk, items, storeUp, tick) ==
  /\ pc[c] = "findGate"
  /\ providerOk \/ items = <<>>
  /\ LET call == [loc[c] EXCEPT
                    !.items = items, !.providerCalled = TRUE,
                    !.faults = IF providerOk THEN {} ELSE {"provider"},
                    !.metMonitored =
                       MeetsMonitored("find", items, loc[c].keywords, loc[c].productId),
                    !.rerun = providerOk /\ storeUp
                                /\ Repeats(loc[c], loc[c].keywords, items)]
         subreddits == FindSubreddits(items, call.keywords, call.productId)
         res == FindMerge(store, nextId, clock, clock + tick, call.productId, items,
                          call.keywords, storeUp)
     IN  /\ storeUp \/ Len(subreddits) > 0
         /\ tick = 0 \/ res.rows # store
         /\ store' = res.rows
         /\ nextId' = res.nextId
         /\ IF Len(subreddits) = 0
            THEN /\ loc' = [loc EXCEPT ![c] = Answer(call, "returned", <<>>, version)]
                 /\ lastRun' = RunOf(call, version)
                 /\ version' = version
            ELSE IF ~storeUp
            THEN LET bad == [call EXCEPT !.faults = @ \cup {"merge"}]
                 IN  /\ loc' = [loc EXCEPT ![c] = Answer(bad, "returned", <<>>, version)]
                     /\ lastRun' = RunOf(bad, version)
                     /\ version' = version
            ELSE IF CreateManyConflicts(store, subreddits)
            THEN /\ loc' = [loc EXCEPT ![c] = Answer(call, "returned", <<>>, version)]
                 /\ lastRun' = RunOf(call, version)
                 /\ version' = version
            ELSE /\ version' = version + 1
                 /\ loc' = Touched(c,
                      Answer([call EXCEPT !.merged =
                                [i \in 1..Len(subreddits) |-> subreddits[i].src]],
                             "returned", subreddits, version + 1))
                 /\ lastRun' = RunOf(call, version + 1)
  /\ pc' = [pc EXCEPT ![c] = "done"]
  /\ clock' = clock + tick + 1
  /\ UNCHANGED <<productKeywords, calls, toggles, builder>>

(***************************************************************************)
(* The earlier findRelevantSubreddits (src/unnamed/part_004), which also   *)
(* answers whatever is thrown with [].                                     *)
(***************************************************************************)

\* lines 64-84: the cached rows, and the product's keywords
OldStart(c, productId, storeUp) ==
  /\ FreeSlot(c)
  /\ calls < MaxCalls
  /\ calls' = calls + 1
  /\ LET call == NewCall("old", productId)
     IN  IF ~storeUp
         THEN LET bad == [call EXCEPT !.faults = {"store"}]
              IN  /\ loc' = [loc EXCEPT ![c] = Answer(bad, "returned", <<>>, version)]
                  /\ pc' = [pc EXCEPT ![c] = "done"]
                  /\ lastRun' = RunOf(bad, version)
         ELSE \E cachedResults \in CachedResults(store, productId) :
                IF Len(cachedResults) >= GateCount
                THEN /\ loc' = [loc EXCEPT ![c] =
                           Answer(call, "returned", cachedResults, version)]
                     /\ pc' = [pc EXCEPT ![c] = "done"]
                     /\ lastRun' = RunOf(call, version)
                ELSE IF Len(KwList[productKeywords[productId]]) = 0
                THEN /\ loc' = [loc EXCEPT ![c] = Answer(call, "returned", <<>>, version)]
                     /\ pc' = [pc EXCEPT ![c] = "done"]
                     /\ lastRun' = RunOf(call, version)
                ELSE /\ loc' = [loc EXCEPT ![c] =
                           [call EXCEPT !.keywords = productKeywords[productId]]]
                     /\ pc' = [pc EXCEPT ![c] = "oldGate"]
                     /\ lastRun' = lastRun
  /\ UNCHANGED <<store, productKeywords, nextId, clock, toggles, version, builder>>

\* lines 86-114: getSubredditsFromApify (its failure is an empty list), subreddits,
\* createMany with skipDuplicates, and the answer
OldDiscover(c, providerOk, items, storeUp) ==
  /\ pc[c] = "oldGate"
  /\ providerOk \/ items = <<>>
  /\ LET call == [loc[c] EXCEPT
                    !.items = items, !.providerCalled = TRUE,
                    !.faults = IF providerOk THEN {} ELSE {"provider"},
                    !.metMonitored =
                       MeetsMonitored("old", items, loc[c].keywords, loc[c].productId),
                    !.rerun = providerOk /\ storeUp
                                /\ Repeats(loc[c], loc[c].keywords, items)]
         subreddits == OldSubreddits(items, call.keywords, call.productId)
         res == CreateManySkipDuplicates(store, subreddits, nextId, clock)
     IN  /\ storeUp \/ Len(subreddits) > 0
         /\ IF Len(subreddits) = 0
            THEN /\ loc' = [loc EXCEPT ![c] = Answer(call, "returned", <<>>, version)]
                 /\ lastRun' = RunOf(call, version)
                 /\ UNCHANGED <<store, nextId, version>>
            ELSE IF ~storeUp
            THEN LET bad == [call EXCEPT !.faults = @ \cup {"merge"}]
                 IN  /\ loc' = [loc EXCEPT ![c] = Answer(bad, "returned", <<>>, version)]
                     /\ lastRun' = RunOf(bad, version)
                     /\ UNCHANGED <<store, nextId, version>>
            ELSE /\ store' = res.rows
                 /\ nextId' = res.nextId
                 /\ version' = IF res.rows = store THEN version ELSE version + 1
                 /\ LET end == IF res.rows = store THEN version ELSE version + 1
                        mine == Answer([call EXCEPT !.merged =
                                          [i \in 1..Len(subreddits) |-> subreddits[i].src]],
                                       "returned", subreddits, end)
                    IN  /\ loc' = IF res.rows = store
                                  THEN [loc EXCEPT ![c] = mine]
                                  ELSE Touched(c, mine)
                        /\ lastRun' = RunOf(call, end)
  /\ pc' = [pc EXCEPT ![c] = "done"]
  /\ clock' = clock + 1
  /\ UNCHANGED <<productKeywords, calls, toggles, builder>>

(***************************************************************************)
(* PATCH /api/reddit/subreddits/[id]/monitor, which the product form calls *)
(* from handleToggle: the user's separate action on isMonitored.           *)
(***************************************************************************)
SetMonitored(id, flag) ==
  /\ toggles < MaxToggles
  /\ \E row \in store :
       /\ row.id = id
       /\ row.isMonitored # flag
       /\ store' = (store \ {row}) \cup {[row EXCEPT !.isMonitored = flag]}
  /\ toggles' = toggles + 1
  /\ version' = version + 1
  /\ loc' = [d \in Procs |->
               IF InFlight(d) THEN [loc[d] EXCEPT !.foreign = TRUE] ELSE loc[d]]
  /\ UNCHANGED <<productKeywords, nextId, clock, pc, calls, lastRun, builder>>

\* the milliseconds that pass between the two calls of new Date() in one object
\* literal: none, as a rule
SameInstant == {0}

\* the steps, for requests about the given products, a provider that answers with one
\* of the given responses, and a clock that advances by one of ticks between the two
\* calls of new Date() of a candidate
Step(products, responses, ticks) ==
  \/ \E c \in Procs, productId \in products, hasParams, storeUp \in BOOLEAN :
       RouteStart(c, productId, hasParams, storeUp)
  \/ \E c \in Procs, keywordsOk, providerOk, txOk \in BOOLEAN,
        keywords \in KwNames, items \in responses, tick \in ticks :
       RouteDiscover(c, keywordsOk, keywords, providerOk, items, txOk, tick)
  \/ \E c \in Procs, storeUp \in BOOLEAN : RouteReturn(c, storeUp)
  \/ \E c \in Procs, productId \in products, storeUp \in BOOLEAN :
       FindStart(c, productId, storeUp)
  \/ \E c \in Procs, providerOk, storeUp \in BOOLEAN, items \in responses,
        tick \in ticks :
       FindDiscover(c, providerOk, items, storeUp, tick)
  \/ \E id \in 1..(nextId - 1), flag \in BOOLEAN : SetMonitored(id, flag)

Next == Step(Products, Responses, SameInstant)

Spec == Init /\ [][Next]_vars

(***************************************************************************)
(* The same handlers with fewer provider responses, and fairness: once a   *)
(* call an await waits for has succeeded or failed, the event loop runs    *)
(* the request's continuation.                                             *)
(***************************************************************************)
FewResponses == {<<>>, <<"i2">>, <<"x1", "x2", "x3", "x4", "i2">>}

\* the step of request c after an await
Continue(c) ==
  \/ \E keywordsOk, providerOk, txOk \in BOOLEAN, keywords \in KwNames,
        items \in FewResponses :
       RouteDiscover(c, keywordsOk, keywords, providerOk, items, txOk, 0)
  \/ \E storeUp \in BOOLEAN : RouteReturn(c, storeUp)
  \/ \E providerOk, storeUp \in BOOLEAN, items \in FewResponses :
       FindDiscover(c, providerOk, items, storeUp, 0)

FairNext == Step(Products, FewResponses, SameInstant)

FairSpec == Init /\ [][FairNext]_vars /\ \A c \in Procs : WF_vars(Continue(c))

(***************************************************************************)
(* The same handlers serving two products.                                 *)
(***************************************************************************)
TwoProducts == {"p1", "p2"}

\* responses with a community both products may get, alone and beside another spelling
SharedResponses == {<<>>, <<"i2">>, <<"i2", "i3">>}

InitTwo ==
  /\ store = {}
  /\ productKeywords \in {f \in [TwoProducts -> KwNames] : f["p1"] = "meal" /\ f["p2"] # "none"}
  /\ nextId = 1
  /\ clock = 1
  /\ pc = [c \in Procs |-> "idle"]
  /\ loc = [c \in Procs |-> NoCall]
  /\ calls = 0
  /\ toggles = 0
  /\ version = 0
  /\ lastRun = NoRun
  /\ builder = NoBuilder

NextTwo == Step(TwoProducts, SharedResponses, SameInstant)

SpecTwo == InitTwo /\ [][NextTwo]_vars

(***************************************************************************)
(* The build that had the earlier findRelevantSubreddits in the place of   *)
(* the present one, beside GET and the monitor toggle.                     *)
(***************************************************************************)
OldResponses == {<<>>, <<"i2">>, <<"r4", "r1", "i2", "r2", "r3", "r5">>}

NextOld ==
  \/ \E c \in Procs, productId \in Products, hasParams, storeUp \in BOOLEAN :
       RouteStart(c, productId, hasParams, storeUp)
  \/ \E c \in Procs, keywordsOk, providerOk, txOk \in BOOLEAN,
        keywords \in KwNames, items \in OldResponses :
       RouteDiscover(c, keywordsOk, keywords, providerOk, items, txOk, 0)
  \/ \E c \in Procs, storeUp \in BOOLEAN : RouteReturn(c, storeUp)
  \/ \E c \in Procs, productId \in Products, storeUp \in BOOLEAN :
       OldStart(c, productId, storeUp)
  \/ \E c \in Procs, providerOk, storeUp \in BOOLEAN, items \in OldResponses :
       OldDiscover(c, providerOk, items, storeUp)
  \/ \E id \in 1..(nextId - 1), flag \in BOOLEAN : SetMonitored(id, flag)

SpecOld == Init /\ [][NextOld]_vars

(***************************************************************************)
(* The same handlers on responses that tell the rules of the scorers, of   *)
(* the score floors and of the slice apart: records that score high and    *)
(* low, two records of one name, and more records than the slice keeps.    *)
(***************************************************************************)
ScoreResponses ==
  {<<>>, <<"s1">>, <<"i2">>, <<"s1", "i2">>, <<"i2", "i3">>,
   <<"f1", "f2", "f3", "f4", "f5", "i2">>}

NextScore == Step(Products, ScoreResponses, SameInstant)

SpecScore == Init /\ [][NextScore]_vars

(***************************************************************************)
(* The same handlers with a clock that may advance by a millisecond        *)
(* between the two calls of new Date() that give a candidate its createdAt *)
(* and its updatedAt.                                                      *)
(***************************************************************************)
Ticks == {0, 1}

NextClock == Step(Products, FewResponses, Ticks)

SpecClock == Init /\ [][NextClock]_vars

(***************************************************************************)
(* CommentBuilder (src/components/CommentBuilder.tsx). The file holds two  *)
(* variants of the component: the first (lines 21-278) whose saveReply     *)
(* reads the state currentReply, the second (lines 300-559) whose          *)
(* saveReply takes the text as its argument. A text is a sequence of       *)
(* words; "u1" and "u2" are URLs and "nl" is a line break.                 *)
(***************************************************************************)
IsUrl(word) == word \in {"u1", "u2"}

\* one line under replace(/(?:https?:\/\/[^\s]+)(?:.*)(https?:\/\/[^\s]+)/g, '$1'):
\* what runs from the first URL of the line to the last is replaced by the last
CleanLine(line) ==
  LET urls == {i \in 1..Len(line) : IsUrl(line[i])}
  IN  IF Cardinality(urls) < 2 THEN line
      ELSE LET first == CHOOSE i \in urls : \A j \in urls : i <= j
               last == CHOOSE i \in urls : \A j \in urls : j <= i
           IN  SubSeq(line, 1, first - 1) \o <<line[last]>>
                 \o SubSeq(line, last + 1, Len(line))

\* the replace on the whole message: "." matches no line break, so line by line
RECURSIVE CleanFrom(_, _, _)
CleanFrom(message, i, line) ==
  IF i > Len(message) THEN CleanLine(line)
  ELSE IF message[i] = "nl"
       THEN CleanLine(line) \o <<"nl">> \o CleanFrom(message, i + 1, <<>>)
       ELSE CleanFrom(message, i + 1, Append(line, message[i]))

\* cleanedContent
CleanedContent(message) == CleanFrom(message, 1, <<>>)

\* post.latestReply as the dialog opens, and what the user may type
Texts == {<<>>, <<"hi">>, <<"try", "u1">>}

\* message.content of the assistant's answers
Messages ==
  {<<"nice">>, <<"see", "u1", "and", "u2", "ok">>, <<"u1", "nl", "u2">>}

Variants == {"first", "second"}

InitBuilder ==
  /\ store = {}
  /\ productKeywords \in [Products -> {"none"}]
  /\ nextId = 1
  /\ clock = 1
  /\ pc = [c \in Procs |-> "idle"]
  /\ loc = [c \in Procs |-> NoCall]
  /\ calls = 0
  /\ toggles = 0
  /\ version = 0
  /\ lastRun = NoRun
  /\ \E variant \in Variants, latestReply \in Texts :
       builder = [NoBuilder EXCEPT !.variant = variant, !.open = TRUE,
                                   !.latestReply = latestReply,
                                   !.currentReply = latestReply]

\* first variant, lines 35-63: saveReply() posts the currentReply of the render whose
\* closure runs, if it is not empty. The dialog after it, as [builder, saved].
SaveReplyOfState(b, heard) ==
  [builder |-> IF heard # <<>>
               THEN [b EXCEPT !.lastPost = [made |-> TRUE, comment |-> heard]]
               ELSE b,
   post |-> IF heard # <<>> THEN [made |-> TRUE, comment |-> heard] ELSE NoPost]

\* second variant, lines 313-341: saveReply(replyText) posts replyText and, when the
\* response is ok, sets post.latestReply and returns true
SaveReply(b, replyText, ok) ==
  [builder |-> [b EXCEPT !.lastPost = [made |-> TRUE, comment |-> replyText],
                         !.latestReply = IF ok THEN replyText ELSE @],
   post |-> [made |-> TRUE, comment |-> replyText],
   saved |-> ok]

\* onClick of the Edit and Check buttons: setIsEditing
SetIsEditing(flag) ==
  /\ builder.open
  /\ builder.isEditing # flag
  /\ builder' = [builder EXCEPT !.isEditing = flag]
  /\ UNCHANGED <<store, productKeywords, nextId, clock, pc, loc, calls, toggles, version,
                 lastRun>>

\* onChange of the reply's Textarea: setCurrentReply(e.target.value)
SetCurrentReply(text) ==
  /\ builder.open
  /\ builder.isEditing
  /\ builder.currentReply # text
  /\ builder' = [builder EXCEPT !.currentReply = text]
  /\ UNCHANGED <<store, productKeywords, nextId, clock, pc, loc, calls, toggles, version,
                 lastRun>>

\* onClick of a prompt button, or typing an instruction: handleInputChange
HandleInputChange ==
  /\ builder.open
  /\ ~builder.isEditing /\ ~builder.isImproving
  /\ ~builder.input
  /\ builder' = [builder EXCEPT !.input = TRUE]
  /\ UNCHANGED <<store, productKeywords, nextId, clock, pc, loc, calls, toggles, version,
                 lastRun>>

\* the form's submit: setIsImproving(true) and handleSubmit, which sends the request and
\* clears the input
HandleImprove ==
  /\ builder.open
  /\ ~builder.isEditing /\ ~builder.isImproving
  /\ builder.input
  /\ builder' = [builder EXCEPT !.isImproving = TRUE, !.input = FALSE, !.pending = TRUE,
                                 !.atSubmit = builder.currentReply]
  /\ UNCHANGED <<store, productKeywords, nextId, clock, pc, loc, calls, toggles, version,
                 lastRun>>

\* onFinish(message). First variant (lines 122-127): setCurrentReply(cleanedContent),
\* then handleSaveAndClose, whose saveReply reads currentReply in the closure onFinish
\* was made in: the render at the submit or the last render, in both of which the
\* state is not yet cleanedContent. Second variant (lines 405-410):
\* saveReply(cleanedContent).
OnFinish(message, heard, ok) ==
  /\ builder.pending
  /\ LET cleanedContent == CleanedContent(message)
         shown == [builder EXCEPT !.isImproving = FALSE, !.pending = FALSE,
                                  !.currentReply = cleanedContent]
     IN  IF builder.variant = "first"
         THEN LET res == SaveReplyOfState(shown, heard)
              IN  /\ heard \in {builder.atSubmit, builder.currentReply}
                  /\ ok \/ heard # <<>>
                  /\ builder' = [res.builder EXCEPT
                                   !.open = FALSE,
                                   !.finish = [done |-> TRUE, cleaned |-> cleanedContent,
                                               post |-> res.post]]
         ELSE LET res == SaveReply(shown, cleanedContent, ok)
              IN  /\ heard = cleanedContent
                  /\ builder' = [res.builder EXCEPT
                                   !.finish = [done |-> TRUE, cleaned |-> cleanedContent,
                                               post |-> res.post]]
  /\ UNCHANGED <<store, productKeywords, nextId, clock, pc, loc, calls, toggles, version,
                 lastRun>>

\* onClick of the save button. First variant: handleSaveAndClose (lines 70-73), which
\* closes whatever the save did. Second variant: handleSave (lines 347-356), which
\* closes when the reply was saved.
HandleSave(ok) ==
  /\ builder.open
  /\ IF builder.variant = "first"
     THEN /\ ok \/ builder.currentReply # <<>>
          /\ builder' = [SaveReplyOfState(builder, builder.currentReply).builder
                           EXCEPT !.open = FALSE]
     ELSE LET res == SaveReply(builder, builder.currentReply, ok)
          IN  builder' = [res.builder EXCEPT !.open = ~res.saved]
  /\ UNCHANGED <<store, productKeywords, nextId, clock, pc, loc, calls, toggles, version,
                 lastRun>>

\* onClick of Cancel, or the dialog's own close: onClose()
HandleCancel ==
  /\ builder.open
  /\ builder' = [builder EXCEPT !.open = FALSE]
  /\ UNCHANGED <<store, productKeywords, nextId, clock, pc, loc, calls, toggles, version,
                 lastRun>>

NextBuilder ==
  \/ \E flag \in BOOLEAN : SetIsEditing(flag)
  \/ \E text \in Texts : SetCurrentReply(text)
  \/ HandleInputChange
  \/ HandleImprove
  \/ \E message \in Messages, heard \in Texts \cup {CleanedContent(m) : m \in Messages},
        ok \in BOOLEAN :
       OnFinish(message, heard, ok)
  \/ \E ok \in BOOLEAN : HandleSave(ok)
  \/ HandleCancel

SpecBuilder == InitBuilder /\ [][NextBuilder]_vars

(***************************************************************************)
(* The properties.                                                         *)
(***************************************************************************)

Done(c) == pc[c] = "done"

\* the call ran to its end with no fault injected, and the table is as the call left it
QuietSince(c) == Done(c) /\ loc[c].faults = {} /\ version = loc[c].endVersion

\* rows compared with updatedAt left out
WithoutUpdatedAt(rows) == {[r EXCEPT !.updatedAt = 0] : r \in rows}

\* C1: no product has two rows whose names are equal after lower-casing and stripping
\* a leading "r/"
C1_UniqueCanonicalName ==
  \A r \in store : \A q \in store :
    (r.productId = q.productId /\ CanonicalName(r.name) = CanonicalName(q.name))
      => r = q

\* C2: the discover step of a call that repeats the completed call before it (same
\* product, keywords and provider response, no fault, no other write in between)
\* leaves the table's rows as they were, updatedAt apart
C2_SecondRunKeepsRows ==
  [][\A c \in Procs :
       (loc'[c].rerun /\ ~loc[c].rerun)
         => WithoutUpdatedAt(store') = WithoutUpdatedAt(store)]_vars

\* a repeated call has run its discover step, and the call before it stored rows from
\* the same response
C2_Witness ==
  \E c \in Procs :
    /\ loc[c].rerun
    /\ \E r \in store : r.src \in Range(loc[c].items)

\* C3: no step of a discover call takes isMonitored = true off a row; only the user's
\* own toggle does
C3_MonitoredKept ==
  [][toggles' = toggles
       => \A r \in store :
            r.isMonitored => \E q \in store' : q.id = r.id /\ q.isMonitored]_vars

\* a discover call met, in its provider response, the community of a row that was
\* monitored, and ran to its end; the row is still monitored
C3_Witness ==
  \E c \in Procs :
    /\ Done(c)
    /\ loc[c].metMonitored
    /\ \E r \in store :
         /\ r.isMonitored
         /\ \E n \in KeptNames(loc[c].handler, loc[c].items, loc[c].keywords) :
              CanonicalName(n) = CanonicalName(r.name)

\* C4: the score of every record under every keyword list, by either scorer, is an
\* integer from 0 to 100, and so is the relevanceScore of every stored row
C4_ScoreInRange ==
  /\ \A k \in ItemKeys : \A w \in KwNames :
       /\ RouteView[k, w].score \in 0..100
       /\ FindView[k, w].candidate.relevanceScore \in 0..100
  /\ \A r \in store : r.relevanceScore \in 0..100

\* a row is stored whose score the clamp cut down to 100, and one below 100
C4_Witness ==
  /\ \E r \in store : \E w \in KwNames :
       /\ RouteView[r.src, w].accepts
       /\ RouteRawScore(ItemOf[r.src], KwList[w]) > 100
       /\ r.relevanceScore = 100
  /\ \E r \in store : r.relevanceScore < 100

\* C5: a discover call that starts when its product has at least GateCount rows of
\* score at least GateMinScore does not call the provider
C5_GateSkipsProvider ==
  \A c \in Procs : loc[c].gateMet => ~loc[c].providerCalled

\* a record is allowed past the filter: not over 18, and a number of members that is
\* a number and at least the floor
RecordAllowed(item) ==
  /\ ~item.over18
  /\ IsNumeric(item.numberOfMembers)
  /\ item.numberOfMembers.val >= MinMembers

C7_Scenario ==
  \A c \in Procs :
    (/\ QuietSince(c)
     /\ calls = 1
     /\ loc[c].keywords = "meal"
     /\ loc[c].items = <<"i1">>)
      => /\ Cardinality(store) = 1
         /\ \A r \in store :
              /\ r.name = ToLowerCase(StripPrefixAnyCase(ItemScenario.title))
              /\ ~r.isMonitored
              /\ r.relevanceScore \in 95..100

\* C8: a call in which the provider's run, and nothing else, failed does not answer
\* with a failure: it answers with the rows stored for the product, and the table is
\* as it was when the call started
C8_ProviderFailureReturnsStored ==
  \A c \in Procs :
    (Done(c) /\ loc[c].faults = {"provider"} /\ version = loc[c].startVersion)
      => /\ loc[c].status \in {"200", "returned"}
         /\ {row.name : row \in Range(loc[c].body)}
              = {r.name : r \in ProductRows(store, loc[c].productId)}

\* C9: a call that could not reach the table answers with a failure, which a call
\* that succeeded with no new candidate never does
C9_StoreFailureSignalled ==
  \A c \in Procs :
    (Done(c) /\ "store" \in loc[c].faults) => loc[c].status \notin {"200", "returned"}

\* the list is in non-increasing order of relevanceScore
NonIncreasing(list) ==
  \A i \in DOMAIN list : \A j \in DOMAIN list :
    i < j => list[i].relevanceScore >= list[j].relevanceScore

\* C10: a call that called the provider and met no fault answers with every row stored
\* for its product, those of before and those it merged, in non-increasing order of
\* relevanceScore
C10_LiveRunReturnsAllRows ==
  \A c \in Procs :
    (QuietSince(c) /\ loc[c].providerCalled)
      => /\ {row.name : row \in Range(loc[c].body)}
              = {r.name : r \in ProductRows(store, loc[c].productId)}
         /\ NonIncreasing(loc[c].body)

\* no two rows share (productId, name)
UniqueKey(rows) ==
  \A r \in rows : \A q \in rows :
    (r.productId = q.productId /\ r.name = q.name) => r = q

\* the candidate a call made of the record of key k
CandidateOf(call, k) ==
  IF call.handler = "route"
  THEN RouteView[k, call.keywords].candidate
  ELSE IF call.handler = "find"
  THEN FindView[k, call.keywords].candidate
  ELSE OldView[k, call.keywords].candidate

\* C11: whatever the interleaving of the calls, no two rows share (productId, name);
\* and after a call's merge each name it merged has exactly one row, which carries
\* the data of the last candidate of that name the merge applied
C11_ConcurrentMergesKeepKey ==
  [][/\ UniqueKey(store')
     /\ \A c \in Procs :
          loc'[c].merged # loc[c].merged
            => \A i \in DOMAIN loc'[c].merged :
                 LET call == loc'[c]
                     cand == CandidateOf(call, call.merged[i])
                     rows == RowsAt(store', call.productId, cand.name)
                 IN  (\A j \in DOMAIN call.merged :
                        j > i => CandidateOf(call, call.merged[j]).name # cand.name)
                       => /\ Cardinality(rows) = 1
                          /\ \A r \in rows :
                               /\ r.src = call.merged[i]
                               /\ r.relevanceScore = cand.relevanceScore
                               /\ r.description = cand.description
                               /\ r.memberCount = cand.memberCount
                               /\ r.matchReason = cand.matchReason]_vars

\* two calls that overlapped have both merged the same name, the second of them from
\* another record, and the name has one row, with the second call's data
C11_Witness ==
  \E c \in Procs : \E d \in Procs \ {c} :
    /\ loc[d].foreign
    /\ \E i \in DOMAIN loc[c].merged : \E j \in DOMAIN loc[d].merged :
         /\ loc[c].merged[i] # loc[d].merged[j]
         /\ CandidateOf(loc[c], loc[c].merged[i]).name
              = CandidateOf(loc[d], loc[d].merged[j]).name
         /\ \E r \in store :
              /\ r.name = CandidateOf(loc[d], loc[d].merged[j]).name
              /\ r.src = loc[d].merged[j]
              /\ r.updatedAt > r.createdAt

\* the (productId, name) pairs of the rows
KeysOf(rows) == {<<r.productId, r.name>> : r \in rows}

\* C12: no step of a discover call removes a row: the (productId, name) pairs after
\* the step include those before it
C12_NoRowRemoved ==
  [][KeysOf(store) \subseteq KeysOf(store')]_vars

\* a call has merged rows into a table that held rows of an earlier call, and those
\* are still there
C12_Witness ==
  \E c \in Procs :
    /\ Done(c)
    /\ loc[c].merged # <<>>
    /\ loc[c].startVersion > 0
    /\ \E r \in store : r.src \notin Range(loc[c].merged)

\* C13: a call whose merge failed answers with a failure, not with what a call whose
\* merge succeeded answers
C13_MergeFailureReported ==
  \A c \in Procs :
    (Done(c) /\ "merge" \in loc[c].faults) => loc[c].status \notin {"200", "returned"}

\* the candidates the call hands to its merge
Accepted(call) ==
  IF call.handler = "route"
  THEN RouteNewSubredditsData(call.items, call.keywords, call.existingNames,
                              call.productId, 0, 0)
  ELSE IF call.handler = "find"
  THEN FindSubreddits(call.items, call.keywords, call.productId)
  ELSE OldSubreddits(call.items, call.keywords, call.productId)

\* every candidate of the list has its row
AllPresent(cands, rows) ==
  \A i \in DOMAIN cands : RowsAt(rows, cands[i].productId, cands[i].name) # {}

\* C14: the merge step of a call leaves either every candidate of its batch in the
\* table, or the table as it was
C14_AllOrNothing ==
  [][\A c \in Procs :
       (pc[c] \in {"routeRead", "findGate"} /\ pc'[c] # pc[c])
         => \/ AllPresent(Accepted(loc'[c]), store')
            \/ store' = store]_vars

\* the merge of a batch of two candidates or more has failed, and none of them is in
\* the table
C14_Witness ==
  \E c \in Procs :
    /\ "merge" \in loc[c].faults
    /\ Len(Accepted(loc[c])) >= 2
    /\ \A i \in DOMAIN Accepted(loc[c]) :
         RowsAt(store, loc[c].productId, Accepted(loc[c])[i].name) = {}

\* C15: every call that has started answers, with a list or with a failure, whether
\* its keyword extraction and its provider call succeed or fail
C15_EveryCallAnswers ==
  \A c \in Procs : (pc[c] \notin {"idle", "done"}) ~> Done(c)

\* a call whose keyword extraction failed and a call whose provider call failed have
\* both answered
C15_Witness ==
  \E c \in Procs : \E d \in Procs :
    /\ Done(c) /\ "keywords" \in loc[c].faults /\ loc[c].status # "none"
    /\ Done(d) /\ "provider" \in loc[d].faults /\ loc[d].status # "none"

\* one discover call run on its own: the handler, the provider's response and, for
\* GET, the keywords extracted
AloneRuns ==
  {[handler |-> "route", items |-> <<"i2">>, w |-> "none"],
   [handler |-> "route", items |-> <<"i2", "i3">>, w |-> "meal"],
   [handler |-> "find", items |-> <<"i2">>, w |-> "meal"],
   [handler |-> "find", items |-> <<"i2", "i3">>, w |-> "meal"]}

\* the table after the call run of product productId has run from start to end with
\* no fault and no other call between its steps, as [rows, nextId]
RunAlone(rows, id, now, productId, run) ==
  IF run.handler = "route"
  THEN RouteMerge(rows, id, now, now, productId, ExistingNames(rows, productId),
                  run.items, run.w, TRUE)
  ELSE IF \/ GateSatisfied(rows, productId)
          \/ Len(KwList[productKeywords[productId]]) = 0
  THEN [rows |-> rows, nextId |-> id]
  ELSE FindMerge(rows, id, now, now, productId, run.items, productKeywords[productId],
                 TRUE)

\* rows compared with the id the database gave them left out
WithoutId(rows) == {[r EXCEPT !.id = 0] : r \in rows}

\* from the table as the calls of the behaviour have left it (every table reached is
\* also left so, a call that meets an empty response changing nothing), a call for p1
\* and a call for p2 leave the same rows in either order
CallsCommute ==
  (calls = MaxCalls /\ \A c \in Procs : ~InFlight(c)) =>
  \A run1 \in AloneRuns : \A run2 \in AloneRuns :
    LET first1 == RunAlone(store, nextId, clock, "p1", run1)
        then2 == RunAlone(first1.rows, first1.nextId, clock + 1, "p2", run2)
        first2 == RunAlone(store, nextId, clock + 1, "p2", run2)
        then1 == RunAlone(first2.rows, first2.nextId, clock, "p1", run1)
    IN  WithoutId(then2.rows) = WithoutId(then1.rows)

\* C16: a step of a call for one product leaves the rows of every other product as
\* they were, and calls for different products commute: in either order they leave
\* the same rows, the generated ids apart
C16_ProductsIndependent ==
  /\ []CallsCommute
  /\ [][\A c \in Procs :
          pc'[c] # pc[c]
            => \A q \in TwoProducts \ {loc'[c].productId} :
                 ProductRows(store', q) = ProductRows(store, q)]_vars

\* two calls that overlapped, one for each product, have each merged the same
\* community, and each product has its row of that name
C16_Witness ==
  \E c \in Procs : \E d \in Procs :
    /\ loc[c].productId = "p1" /\ loc[d].productId = "p2"
    /\ loc[d].foreign
    /\ \E k \in Range(loc[c].merged) \cap Range(loc[d].merged) :
         /\ \E r \in ProductRows(store, "p1") : r.src = k
         /\ \E r \in ProductRows(store, "p2") : r.src = k

\* C17: a call that finds the gate satisfied, and so does not call the provider,
\* answers with exactly the rows of its product of score at least GateMinScore, all of
\* them, in non-increasing order of score
C17_GateReturnsAllRows ==
  \A c \in Procs :
    (QuietSince(c) /\ loc[c].gateMet /\ ~loc[c].providerCalled)
      => /\ Range(loc[c].body)
              = {r \in ProductRows(store, loc[c].productId) :
                   r.relevanceScore >= GateMinScore}
         /\ NonIncreasing(loc[c].body)

\* C20: the name of every row is all lower-case and does not begin with "r/" in any
\* letter case
C20_NamesCanonical ==
  \A r \in store :
    /\ r.name = ToLowerCase(r.name)
    /\ r.name = StripPrefixAnyCase(r.name)

\* C18: a step of a discover call leaves, on every row there was, the id, createdAt,
\* isMonitored, title and url as they were; the update branch of the merge writes
\* none of them
C18_UpdateKeepsIdentity ==
  [][toggles' = toggles
       => \A r \in store :
            \E q \in store' :
              /\ q.productId = r.productId /\ q.name = r.name
              /\ q.id = r.id
              /\ q.createdAt = r.createdAt
              /\ q.isMonitored = r.isMonitored
              /\ q.title = r.title
              /\ q.url = r.url]_vars

\* the merge has updated a row from a candidate of another title: the row has the
\* candidate's score and a later updatedAt, and the title it was created with
C18_Witness ==
  \E c \in Procs : \E r \in store :
    /\ r.src \in Range(loc[c].merged)
    /\ r.updatedAt > r.createdAt
    /\ r.relevanceScore = CandidateOf(loc[c], r.src).relevanceScore
    /\ r.title # CandidateOf(loc[c], r.src).title

\* C19: when no other call has written since the call started, the batch the call
\* hands to its merge holds no candidate whose name is, case apart, the name of a row
\* of the product, and the step leaves every row of the product as it was
C19_StoredNamesDropped ==
  [][\A c \in Procs :
       (InFlight(c) /\ pc'[c] # pc[c] /\ pc[c] # "routeMerged" /\ ~loc[c].foreign)
         => /\ \A i \in DOMAIN Accepted(loc'[c]) :
                 ToLowerCase(Accepted(loc'[c])[i].name)
                   \notin ExistingNames(store, loc[c].productId)
            /\ ProductRows(store, loc[c].productId) \subseteq store']_vars

\* the rows of after that before has no row of the same id for: the rows created
Created(before, after) == {r \in after : \A q \in before : q.id # r.id}

\* C21: every row a step creates has isMonitored false and createdAt equal to
\* updatedAt
C21_CreatedUnmonitoredSameInstant ==
  [][\A r \in Created(store, store') :
       ~r.isMonitored /\ r.createdAt = r.updatedAt]_vars

\* the keywords (by position) that the title or the description contains: each counts
\* once, whether it is in one of them or in both
MatchedKeywordSet(item, keywords) ==
  HitsIn(item.title, keywords) \cup HitsIn(item.description, keywords)

\* the share of matched keywords among the keywords is below 0.3
FractionBelow(item, keywords) ==
  /\ Len(keywords) > 0
  /\ 10 * Cardinality(MatchedKeywordSet(item, keywords)) < 3 * Len(keywords)

\* C22: on every record GET scores, the scorer takes the 30 points off exactly when the
\* number of keywords the title or the description contains, each counted once, is
\* below 0.3 of the number of keywords
C22_PenaltyByDistinctMatches ==
  \A c \in Procs :
    (loc[c].handler = "route" /\ loc[c].providerCalled)
      => \A k \in Range(loc[c].items) :
           RouteLowMatch(ItemOf[k], KwList[loc[c].keywords])
             <=> FractionBelow(ItemOf[k], KwList[loc[c].keywords])

\* the reference rule of the score: 60, 15 for each keyword in the title, 10 for each in
\* the description, 10 above a million members or else 5 above a hundred thousand, 20
\* off below ten thousand, 30 off when the share of matched keywords is below 0.3, and
\* the result kept within 0..100
ReferenceScore(item, keywords) ==
  Min(100, Max(0,
    60 + 15 * Cardinality(HitsIn(item.title, keywords))
       + 10 * Cardinality(HitsIn(item.description, keywords))
       + (IF JsGt(item.numberOfMembers, 1000000) THEN 10
          ELSE IF JsGt(item.numberOfMembers, 100000) THEN 5 ELSE 0)
       - (IF JsLt(item.numberOfMembers, 10000) THEN 20 ELSE 0)
       - (IF FractionBelow(item, keywords) THEN 30 ELSE 0)))

\* C23: the score a call gives a record it makes a candidate of is the score of the
\* reference rule
C23_ScoreIsReference ==
  \A c \in Procs :
    (loc[c].handler \in {"route", "find"} /\ loc[c].providerCalled)
      => \A k \in Range(loc[c].items) :
           CandidateOf(loc[c], k).relevanceScore
             = ReferenceScore(ItemOf[k], KwList[loc[c].keywords])

\* the characters of names, in the order of their codes
Alphabet ==
  <<" ", "/", "0", "1", "2", "3", "4", "5", "6", "7", "8", "9",
    "A", "B", "C", "D", "E", "F", "G", "H", "I", "J", "K", "L", "M",
    "N", "O", "P", "Q", "R", "S", "T", "U", "V", "W", "X", "Y", "Z", "_",
    "a", "b", "c", "d", "e", "f", "g", "h", "i", "j", "k", "l", "m",
    "n", "o", "p", "q", "r", "s", "t", "u", "v", "w", "x", "y", "z">>

CharRank(ch) == CHOOSE i \in 1..Len(Alphabet) : Alphabet[i] = ch

\* a is b or comes before b in the ascending order of strings
RECURSIVE NameAtMost(_, _)
NameAtMost(a, b) ==
  IF Len(a) = 0 THEN TRUE
  ELSE IF Len(b) = 0 THEN FALSE
  ELSE IF a[1] = b[1] THEN NameAtMost(Tail(a), Tail(b))
  ELSE CharRank(a[1]) < CharRank(b[1])

\* the list has its rows of equal score by memberCount descending, then name ascending
TiesBroken(list) ==
  \A i \in DOMAIN list : \A j \in DOMAIN list :
    (i < j /\ list[i].relevanceScore = list[j].relevanceScore)
      => \/ list[i].memberCount > list[j].memberCount
         \/ /\ list[i].memberCount = list[j].memberCount
            /\ NameAtMost(list[i].name, list[j].name)

\* the answer of the call is the rows a findMany read: GET's 200, or the gate's rows
ReadFromStore(c) ==
  \/ loc[c].status = "200"
  \/ loc[c].handler \in {"find", "old"} /\ loc[c].status = "returned"
       /\ ~loc[c].providerCalled /\ loc[c].body # <<>>

\* C24: in a list a call read from the table and returned, rows of equal relevanceScore
\* are in the order of memberCount descending, then name ascending
C24_TiesByMembersThenName ==
  \A c \in Procs : (Done(c) /\ ReadFromStore(c)) => TiesBroken(loc[c].body)

\* the keywords a matchReason lists after its label
ListedKeywords(reason) == Tail(reason)

\* C25: the matchReason of every candidate of a run lists the first three keywords of
\* the run, or all of fewer, in their order, and is the same on every candidate
C25_ReasonListsFirstThree ==
  \A c \in Procs :
    loc[c].providerCalled
      => \A k \in Range(loc[c].items) :
           /\ ListedKeywords(CandidateOf(loc[c], k).matchReason)
                = Join(SliceTo(KwList[loc[c].keywords], 3), CommaSpace)
           /\ \A j \in Range(loc[c].items) :
                CandidateOf(loc[c], j).matchReason = CandidateOf(loc[c], k).matchReason

\* the rows of the product whose name is, prefix and letter case apart, the name n
RowsOfCommunity(rows, productId, n) ==
  {r \in ProductRows(rows, productId) : CanonicalName(r.name) = n}

\* C26: when the batch a call hands to its merge holds two candidates of one canonical
\* name that no row of the product has yet, and no fault is injected, the step leaves
\* exactly one row of that name and a row for every candidate of the batch
C26_BatchDuplicatesStoredOnce ==
  [][\A c \in Procs :
       (InFlight(c) /\ pc'[c] # pc[c] /\ pc[c] # "routeMerged" /\ loc'[c].faults = {})
         => LET batch == Accepted(loc'[c])
            IN  \A i \in DOMAIN batch : \A j \in DOMAIN batch :
                  (/\ i < j
                   /\ CanonicalName(batch[i].name) = CanonicalName(batch[j].name)
                   /\ RowsOfCommunity(store, loc[c].productId,
                                      CanonicalName(batch[i].name)) = {})
                    => /\ Cardinality(RowsOfCommunity(store', loc[c].productId,
                                                      CanonicalName(batch[i].name))) = 1
                       /\ AllPresent(batch, store')]_vars

\* C27: every row a step of GET's merge creates, and every row it writes, has a
\* relevanceScore of at least RouteMinScore
C27_RouteRowsAtLeastMinScore ==
  [][\A c \in Procs :
       (pc[c] = "routeRead" /\ pc'[c] = "routeMerged")
         => \A r \in store' \ store : r.relevanceScore >= RouteMinScore]_vars

\* a GET has stored one record of its response and left out another that passed the
\* filter, had no row, and scored below RouteMinScore
C27_Witness ==
  \E c \in Procs :
    /\ loc[c].handler = "route"
    /\ \E k \in Range(loc[c].merged) : \E r \in store : r.src = k
    /\ \E k \in Range(loc[c].items) :
         /\ RouteView[k, loc[c].keywords].accepts
         /\ RouteView[k, loc[c].keywords].name \notin loc[c].existingNames
         /\ RouteView[k, loc[c].keywords].score < RouteMinScore
         /\ \A r \in store : r.src # k

\* C28: the step in which findRelevantSubreddits, past its gate, merges and answers
\* creates at most GateCount rows, each of them from a suggestion of the list it
\* returns, and returns at most GateCount suggestions, each of a relevanceScore of at
\* least GateMinScore
C28_FindStoresWhatItReturns ==
  [][\A c \in Procs :
       (pc[c] \in {"findGate", "oldGate"} /\ pc'[c] = "done")
         => LET body == loc'[c].body
            IN  /\ Len(body) <= GateCount
                /\ \A i \in DOMAIN body : body[i].relevanceScore >= GateMinScore
                /\ Cardinality(Created(store, store')) <= GateCount
                /\ \A r \in Created(store, store') :
                     \E i \in DOMAIN body :
                       /\ body[i].name = r.name
                       /\ body[i].productId = r.productId
                       /\ body[i].src = r.src]_vars

\* findRelevantSubreddits has met more than GateCount records that pass its filter
\* with a score of at least GateMinScore, returned GateCount suggestions and stored
\* a row for each
C28_Witness ==
  \E c \in Procs :
    /\ Done(c) /\ loc[c].handler = "find" /\ loc[c].providerCalled
    /\ Cardinality({k \in Range(loc[c].items) :
                      /\ FindView[k, loc[c].keywords].accepts
                      /\ FindView[k, loc[c].keywords].candidate.relevanceScore
                           >= GateMinScore}) > GateCount
    /\ Len(loc[c].body) = GateCount
    /\ \A i \in DOMAIN loc[c].body :
         RowsAt(store, loc[c].productId, loc[c].body[i].name) # {}

\* C29: a GET that lacks a parameter has answered with status 400 and an empty body,
\* having read no row, extracted no keywords, called no provider and written nothing
C29_MissingParamsRejected ==
  \A c \in Procs :
    "request" \in loc[c].faults
      => /\ Done(c)
         /\ loc[c].status = "400"
         /\ loc[c].body = <<>>
         /\ loc[c].existingNames = {}
         /\ loc[c].keywords = "none"
         /\ ~loc[c].providerCalled
         /\ loc[c].merged = <<>>
         /\ loc[c].endVersion = loc[c].startVersion

\* a GET that lacks a parameter has answered 400 about a product that had rows when
\* the request came
C29_Witness ==
  \E c \in Procs :
    /\ "request" \in loc[c].faults
    /\ loc[c].status = "400"
    /\ loc[c].startVersion > 0
    /\ ProductRows(store, loc[c].productId) # {}

\* C30: in CommentBuilder, once an AI improvement has finished, the reply text that
\* its onFinish sent to the save endpoint is the cleaned improved message of that
\* improvement, not the reply text held before the improvement started.
C30_FinishSavesCleaned ==
  builder.finish.done =>
    /\ builder.finish.post.made
    /\ builder.finish.post.comment = builder.finish.cleaned

====
